---- MODULE Spec2Model ----
(***************************************************************************)
(* Model of aap.py, the Streamlit movie recommender: load_data,            *)
(* fetch_poster, recommend_movies and the script body main().              *)
(*                                                                         *)
(* Conventions.  Row positions and index labels are 0-based as in Python;  *)
(* TLA+ sequences are 1-based, so Python's xs[i] is xs[i + 1] here.        *)
(* A similarity score is an integer number of score units, ScoreUnit units *)
(* making 0.001 (with ScoreUnit = 5 a unit is 0.0002); a rounded score is  *)
(* an integer number of thousandths.                                       *)
(***************************************************************************)
EXTENDS Integers, Sequences, FiniteSets, TLC

VARIABLES
    movies,          \* the catalog DataFrame: a sequence of rows [index, title, movie_id]
    similarity,      \* the similarity matrix: a sequence of rows of scores
    rec,             \* the last call of recommend_movies: its locals and its outcome
    poster_cache,    \* st.cache_data of fetch_poster: movie_id -> URL
    poster,          \* the last call of fetch_poster
    disk,            \* movie_list.pkl and similarity.pkl as they lie on disk
    load_cache,      \* st.cache_data of load_data
    load_result,     \* what load_data returned to this run: "pending", "pair", "none"
    session_state,   \* st.session_state: a dict, its keys absent until assigned
    selectbox,       \* widget state: the position chosen in "Choose a movie you liked:"
    search_query,    \* widget state: the text of "Or search for a movie:"
    trigger,         \* the widget whose interaction started this run of the script
    pc,              \* where the run of main() stands
    selected_movie,  \* main's local selected_movie (the selection the page shows)
    calls,           \* calls made by this run, per function
    tmdb,            \* what the poster API answers in this session
    random_rendered, \* the random panel's buttons are on the page
    clicked,         \* the selection on the page at the last primary button click
    error            \* the exception that ended the run, if one did

recVars == <<movies, similarity, rec>>
posterVars == <<poster_cache, poster>>
mainVars == <<disk, load_cache, load_result, session_state, selectbox, search_query,
              trigger, pc, selected_movie, calls, tmdb, random_rendered, clicked, error>>
vars == <<recVars, posterVars, mainVars>>

----------------------------------------------------------------------------
(* Bounds of the model *)

MaxSmall == 3      \* largest catalog of the families that vary shape, labels and titles
MaxMovies == 7     \* largest catalog of the family of square matrices
MaxScore == 3      \* raw scores range over 0..MaxScore score units
ScoreUnit == 5     \* score units per 0.001
MaxPosterIds == 2  \* movie ids fetch_poster is called with on its own

(* Program constants *)

TopFrom == 1       \* the slice [1:6] starts after the first ranked entry
TopTo == 6         \* the slice [1:6] ends before position 6
Digits == 3        \* round(score, 3)
SampleSize == 6    \* movies.sample(6)

----------------------------------------------------------------------------
(* Python helpers *)

Min(a, b) == IF a < b THEN a ELSE b

RECURSIVE Pow10(_)
Pow10(k) == IF k = 0 THEN 1 ELSE 10 * Pow10(k - 1)

\* seq[lo:hi] for 0 <= lo <= hi
Slice(seq, lo, hi) == SubSeq(seq, lo + 1, Min(hi, Len(seq)))

\* list(enumerate(distances)): the pairs <<position, score>>, positions from 0
Enumerate(distances) == [k \in 1..Len(distances) |-> <<k - 1, distances[k]>>]

\* round(score, Digits): the nearest multiple of 10^-Digits, in units of 10^-Digits.
\* With an odd ScoreUnit no score lies halfway between two multiples.
Round(score) ==
    LET unit == (ScoreUnit * 1000) \div Pow10(Digits)
    IN  IF 2 * (score % unit) >= unit THEN score \div unit + 1 ELSE score \div unit

\* One step of a stable descending sort: e goes after every entry whose key is
\* not smaller, so entries with equal keys keep the order they arrived in.
RECURSIVE InsertDesc(_, _)
InsertDesc(e, sorted) ==
    IF sorted = <<>> THEN <<e>>
    ELSE IF Head(sorted)[2] >= e[2] THEN <<Head(sorted)>> \o InsertDesc(e, Tail(sorted))
    ELSE <<e>> \o sorted

RECURSIVE SortFrom(_, _)
SortFrom(pairs, sorted) ==
    IF pairs = <<>> THEN sorted
    ELSE SortFrom(Tail(pairs), InsertDesc(Head(pairs), sorted))

Reverse(seq) == [k \in 1..Len(seq) |-> seq[Len(seq) + 1 - k]]

\* A descending sort that reverses an ascending one: equal keys come out in
\* reverse arrival order.
SortedDescReversing(pairs) == SortFrom(Reverse(pairs), <<>>)

\* An ascending sort: reverse=True left out.
SortedAsc(pairs) == Reverse(SortFrom(pairs, <<>>))

\* sorted(pairs, reverse=True, key=lambda x: x[1]): descending by score, stable
SortedDesc(pairs) == SortFrom(pairs, <<>>)

----------------------------------------------------------------------------
(* recommend_movies *)

\* movies[movies['title'] == movie].index: the labels of the matching rows, in row order
MatchIndex(movie, catalog) ==
    LET hits == SelectSeq(catalog, LAMBDA row : row.title = movie)
    IN  [k \in 1..Len(hits) |-> hits[k].index]

\* The 0-based position of the first row whose title equals movie
FirstPosition(movie, catalog) ==
    (CHOOSE p \in 1..Len(catalog) :
        /\ catalog[p].title = movie
        /\ \A q \in 1..(p - 1) : catalog[q].title # movie) - 1

\* movies[movies['title'] == movie].index[0], given that a row matches
MovieIndex(movie, catalog) == MatchIndex(movie, catalog)[1]

\* The whole ranking with no entry dropped.
TopSliceKeepingFirst(ranked) == Slice(ranked, 0, TopTo - 1)

\* sorted(...)[1:6]
TopSlice(ranked) == Slice(ranked, TopFrom, TopTo)

\* The for loop: one dict per ranked entry, until movies.iloc[i[0]] raises
RECURSIVE BuildList(_, _, _)
BuildList(movies_list, catalog, acc) ==
    IF movies_list = <<>> THEN [raised |-> FALSE, list |-> acc]
    ELSE LET i == Head(movies_list)
         IN  IF i[1] + 1 \notin DOMAIN catalog
             THEN [raised |-> TRUE, list |-> acc]
             ELSE BuildList(Tail(movies_list), catalog,
                      Append(acc, [title |-> catalog[i[1] + 1].title,
                                   movie_id |-> catalog[i[1] + 1].movie_id,
                                   similarity_score |-> Round(i[2])]))

NoRow == <<>>

\* The try block: the locals as they stand when it returns or raises
TryBody(movie, catalog, matrix) ==
    IF MatchIndex(movie, catalog) = <<>>
    THEN [raised |-> TRUE, matched |-> FALSE, movie_index |-> -1, has_row |-> FALSE,
          distances |-> NoRow, ranked |-> <<>>, movies_list |-> <<>>,
          recommended_movies |-> <<>>]
    ELSE LET movie_index == MovieIndex(movie, catalog)
         IN  IF movie_index + 1 \notin DOMAIN matrix
             THEN [raised |-> TRUE, matched |-> TRUE, movie_index |-> movie_index,
                   has_row |-> FALSE, distances |-> NoRow, ranked |-> <<>>,
                   movies_list |-> <<>>, recommended_movies |-> <<>>]
             ELSE LET distances == matrix[movie_index + 1]
                      ranked == SortedDesc(Enumerate(distances))
                      movies_list == TopSlice(ranked)
                      built == BuildList(movies_list, catalog, <<>>)
                  IN  [raised |-> built.raised, matched |-> TRUE,
                       movie_index |-> movie_index, has_row |-> TRUE,
                       distances |-> distances, ranked |-> ranked,
                       movies_list |-> movies_list,
                       recommended_movies |-> built.list]

\* A handler that returns what the loop had built when it raised.
ReturnPartial(body) == [raises |-> FALSE, value |-> body.recommended_movies]

\* try ... except: return recommended_movies, or the bare except's return [].
\* A bare except catches every exception, so nothing leaves the function.
Returned(body) ==
    [raises |-> FALSE,
     value |-> IF body.raised THEN <<>> ELSE body.recommended_movies]

recommend_movies(movie, catalog, matrix) ==
    LET body == TryBody(movie, catalog, matrix)
        out == Returned(body)
    IN  [called |-> TRUE, movie |-> movie, body |-> body,
         raises |-> out.raises, result |-> out.value]

NoCall == [called |-> FALSE]

----------------------------------------------------------------------------
(* fetch_poster *)

Placeholder == "https://via.placeholder.com/500x750?text=No+Poster+Available"
ImageBase == "https://image.tmdb.org/t/p/w500/"

\* A JSON field of the response: absent, null, or a string
JAbsent == [tag |-> "absent", s |-> ""]
JNull == [tag |-> "null", s |-> ""]
JStr(s) == [tag |-> "str", s |-> s]

PosterPaths == {"/a.jpg", "/b.jpg"}

\* What one execution of the body can meet: the secret "api" present or not,
\* requests.get returning or raising, the response body being no JSON, JSON
\* that is no object, or an object, and the object's poster_path field.
Envs ==
    [api_key : BOOLEAN, request_ok : BOOLEAN, json : {"invalid", "not_object", "object"},
     poster_path : {JAbsent, JNull} \cup {JStr(s) : s \in PosterPaths \cup {""}}]

\* data.get('poster_path'): None for an absent field, else the field
DictGet(field) == IF field.tag = "absent" THEN JNull ELSE field

\* if poster_path: None and "" are falsy
Truthy(value) == value.tag = "str" /\ value.s # ""

PosterRaise == [raised |-> TRUE, value |-> ""]

\* The try block of fetch_poster
PosterBody(movie_id, env) ==
    IF ~env.api_key THEN PosterRaise                 \* st.secrets["api"] raises
    ELSE IF ~env.request_ok THEN PosterRaise         \* requests.get raises
    ELSE IF env.json = "invalid" THEN PosterRaise    \* response.json() raises
    ELSE IF env.json # "object" THEN PosterRaise     \* data.get: no such attribute
    ELSE LET poster_path == DictGet(env.poster_path)
         IN  IF Truthy(poster_path)
             THEN [raised |-> FALSE, value |-> ImageBase \o poster_path.s]
             ELSE [raised |-> FALSE, value |-> Placeholder]

\* A body without the handler: the exception leaves fetch_poster.
PosterPropagates(body) == [raises |-> body.raised, url |-> body.value]

\* try ... except: return the placeholder
PosterReturned(body) ==
    [raises |-> FALSE, url |-> IF body.raised THEN Placeholder ELSE body.value]

\* No request is made
NoEnv == [api_key |-> FALSE, request_ok |-> FALSE, json |-> "invalid", poster_path |-> JAbsent]

\* One call of the cached function: a cached movie_id returns the cached URL
\* without running the body.
fetch_poster(cache, movie_id, env) ==
    IF movie_id \in DOMAIN cache
    THEN [called |-> TRUE, movie_id |-> movie_id, executed |-> FALSE, env |-> NoEnv,
          raises |-> FALSE, url |-> cache[movie_id], cache |-> cache]
    ELSE LET out == PosterReturned(PosterBody(movie_id, env))
         IN  [called |-> TRUE, movie_id |-> movie_id, executed |-> TRUE, env |-> env,
              raises |-> out.raises, url |-> out.url,
              cache |-> IF out.raises THEN cache ELSE cache @@ (movie_id :> out.url)]

\* fetch_poster for each id of a list in turn: the last call made
RECURSIVE FetchEach(_, _, _, _)
FetchEach(last, cache, ids, env) ==
    IF ids = <<>> THEN [last EXCEPT !.cache = cache]
    ELSE LET call == fetch_poster(cache, Head(ids), env)
         IN  FetchEach(call, call.cache, Tail(ids), env)

NoCache == <<>>

----------------------------------------------------------------------------
(* load_data *)

Artifact(rows) == [state |-> "ok", rows |-> rows]
Missing == [state |-> "missing", rows |-> <<>>]
Corrupt == [state |-> "corrupt", rows |-> <<>>]

\* The body of load_data: open and unpickle both files; any exception gives
\* (None, None), otherwise the pair as read
LoadBody(files) ==
    IF files.movie_list.state # "ok" THEN [ok |-> FALSE, movies |-> <<>>, similarity |-> <<>>]
    ELSE IF files.similarity.state # "ok"
         THEN [ok |-> FALSE, movies |-> <<>>, similarity |-> <<>>]
    ELSE [ok |-> TRUE, movies |-> files.movie_list.rows,
          similarity |-> files.similarity.rows]

\* One call of the cached function
load_data(cache, files) ==
    IF cache.cached THEN [value |-> cache.value, cache |-> cache]
    ELSE LET got == LoadBody(files)
         IN  [value |-> got, cache |-> [cached |-> TRUE, value |-> got]]

EmptyLoadCache == [cached |-> FALSE, value |-> [ok |-> FALSE, movies |-> <<>>, similarity |-> <<>>]]

----------------------------------------------------------------------------
(* The artifacts recommend_movies is applied to *)

TitleNames == <<"A", "B", "C", "D", "E", "F", "G", "H", "I", "J">>
UnknownTitle == "Z"

\* A catalog of n rows; labels are row positions up to `gap` and skip one
\* label there (a row dropped before the export, the index never reset).
Catalog(n, titles, gap) ==
    [p \in 1..n |-> [index |-> IF p - 1 < gap THEN p - 1 ELSE p,
                     title |-> titles[p],
                     movie_id |-> p]]

DistinctTitles(n) == [p \in 1..n |-> TitleNames[p]]

\* A matrix of `rows` rows whose row i is `base` rotated right by i, so that
\* base[1] lies on the diagonal.
Rotations(rows, base) ==
    [i \in 1..rows |-> [j \in 1..Len(base) |-> base[((j - i) % Len(base)) + 1]]]

Scores == 0..MaxScore

\* The scenario of the specification's section 8
ScenarioCatalog == Catalog(4, DistinctTitles(4), 4)
ScenarioRow == <<1000 * ScoreUnit, 900 * ScoreUnit, 500 * ScoreUnit, 200 * ScoreUnit>>

\* Catalogs with repeated titles and with gaps in the labels, square matrices
InitLabels ==
    \E n \in 1..MaxSmall :
      \E titles \in [1..n -> {TitleNames[1], TitleNames[2]}], gap \in 0..n :
        \E base \in [1..n -> Scores] :
          /\ movies = Catalog(n, titles, gap)
          /\ similarity = Rotations(n, base)

\* Default labels and distinct titles, matrices with a row or a column more or less
InitShapes ==
    \E n \in 1..MaxSmall :
      \E rows \in (n - 1)..(n + 1), cols \in (n - 1)..(n + 1) :
        \E base \in [1..cols -> Scores] :
          /\ movies = Catalog(n, DistinctTitles(n), n)
          /\ similarity = Rotations(rows, base)

\* Larger catalogs with square matrices over two score values
InitSquare ==
    \E n \in (MaxSmall + 1)..MaxMovies :
      \E base \in [1..n -> {0, MaxScore}] :
        /\ movies = Catalog(n, DistinctTitles(n), n)
        /\ similarity = Rotations(n, base)

InitScenario ==
    /\ movies = ScenarioCatalog
    /\ similarity = Rotations(4, ScenarioRow)

----------------------------------------------------------------------------
(* main(): one browser session of the script *)

SixRow == [j \in 1..SampleSize |-> (SampleSize + 1 - j) * 100 * ScoreUnit]

\* What may lie on disk when the app starts
DiskImages ==
    { [movie_list |-> Missing, similarity |-> Artifact(Rotations(4, ScenarioRow))],
      [movie_list |-> Artifact(ScenarioCatalog), similarity |-> Corrupt],
      [movie_list |-> Artifact(ScenarioCatalog),
       similarity |-> Artifact(Rotations(4, ScenarioRow))],
      [movie_list |-> Artifact(Catalog(3, DistinctTitles(3), 3)),
       similarity |-> Artifact(Rotations(4, ScenarioRow))],
      [movie_list |-> Artifact(Catalog(SampleSize, DistinctTitles(SampleSize), SampleSize)),
       similarity |-> Artifact(Rotations(SampleSize, SixRow))] }

EnvUp == [api_key |-> TRUE, request_ok |-> TRUE, json |-> "object",
          poster_path |-> JStr("/a.jpg")]
EnvDown == [api_key |-> TRUE, request_ok |-> FALSE, json |-> "invalid",
            poster_path |-> JAbsent]

LowerNames == <<"a", "b", "c", "d", "e", "f", "g", "h", "i", "j">>

Lower(s) ==
    IF \E k \in DOMAIN TitleNames : TitleNames[k] = s
    THEN LowerNames[CHOOSE k \in DOMAIN TitleNames : TitleNames[k] = s]
    ELSE s

\* What the user may type in the search box
SearchTexts == {"", "b", "C", "zz"}

\* str.contains(search_query, case=False) on a title; the titles of the model
\* are single letters, which contain a text exactly when they equal it
Contains(title, text) == Lower(title) = Lower(text)

Titles(catalog) == [p \in 1..Len(catalog) |-> catalog[p].title]

\* filtered_movies['title'].values
Filtered(catalog, text) == SelectSeq(Titles(catalog), LAMBDA t : Contains(t, text))

\* Lines 129-134: the selection the two select boxes give
Selection(catalog, position, text) ==
    IF text # "" /\ Filtered(catalog, text) # <<>>
    THEN Filtered(catalog, text)[1]
    ELSE Titles(catalog)[position + 1]

NoSession == [k \in {} |-> TRUE]

\* st.button(...): True in the run its click started, and only there
Button(key) == trigger.widget = key
RandomButton(i) == trigger.widget = "random_get" /\ trigger.i = i

\* hasattr(st.session_state, 'get_recommendations') and st.session_state.get_recommendations
WantsRecommendations ==
    /\ "get_recommendations" \in DOMAIN session_state
    /\ session_state["get_recommendations"]

\* Recommendations for the selection the page shows now.
RecommendForSelector == selected_movie

\* Line 144: the title recommend_movies is called with
RecommendFor == session_state["selected_movie"]

\* The guard left out.
NeverStop(result) == FALSE

\* Line 114: movies is None or similarity is None
ShouldStop(result) == result = "none"

NoCalls == [load_data |-> 0, recommend_movies |-> 0, fetch_poster |-> 0]
NoTrigger == [widget |-> "open", i |-> 0]
NoClick == [has |-> FALSE, title |-> ""]

Init ==
    /\ disk \in DiskImages
    /\ tmdb \in {EnvUp, EnvDown}
    /\ movies = <<>> /\ similarity = <<>> /\ rec = NoCall
    /\ poster_cache = NoCache /\ poster = NoCall
    /\ load_cache = EmptyLoadCache /\ load_result = "pending"
    /\ session_state = NoSession
    /\ selectbox = 0 /\ search_query = ""
    /\ trigger = NoTrigger
    /\ pc = "load"
    /\ selected_movie = ""
    /\ calls = NoCalls
    /\ random_rendered = FALSE
    /\ clicked = NoClick
    /\ error = "none"

\* The page is up and takes input: the last run ended or died after rendering
Interactive == pc \in {"idle", "crashed"}

\* A widget interaction: Streamlit runs the script again from the top
StartRun(widget, i) ==
    /\ trigger' = [widget |-> widget, i |-> i]
    /\ pc' = "load"
    /\ load_result' = "pending"
    /\ calls' = NoCalls
    /\ rec' = NoCall
    /\ poster' = NoCall
    /\ error' = "none"
    /\ UNCHANGED <<movies, similarity, poster_cache, disk, load_cache, session_state,
                   selected_movie, tmdb, random_rendered>>

ChangeSelectbox ==
    /\ Interactive
    /\ \E position \in 0..(Len(movies) - 1) :
         /\ position # selectbox
         /\ selectbox' = position
    /\ StartRun("selectbox", 0)
    /\ UNCHANGED <<search_query, clicked>>

TypeSearch ==
    /\ Interactive
    /\ \E text \in SearchTexts :
         /\ text # search_query
         /\ search_query' = text
    /\ StartRun("text_input", 0)
    /\ UNCHANGED <<selectbox, clicked>>

ClickGet ==
    /\ Interactive
    /\ clicked' = [has |-> TRUE, title |-> selected_movie]
    /\ StartRun("get_recommendations", 0)
    /\ UNCHANGED <<selectbox, search_query>>

ClickShowRandom ==
    /\ Interactive
    /\ StartRun("show_random", 0)
    /\ UNCHANGED <<selectbox, search_query, clicked>>

ClickRandomGet ==
    /\ Interactive
    /\ random_rendered
    /\ \E i \in 0..(SampleSize - 1) : StartRun("random_get", i)
    /\ UNCHANGED <<selectbox, search_query, clicked>>

\* Line 112: movies, similarity = load_data()
LoadData ==
    /\ pc = "load"
    /\ LET got == load_data(load_cache, disk)
       IN  /\ load_cache' = got.cache
           /\ load_result' = IF got.value.ok THEN "pair" ELSE "none"
           /\ movies' = got.value.movies
           /\ similarity' = got.value.similarity
    /\ calls' = [calls EXCEPT !.load_data = @ + 1]
    /\ pc' = "guard"
    /\ UNCHANGED <<rec, posterVars, disk, session_state, selectbox, search_query, trigger,
                   selected_movie, tmdb, random_rendered, clicked, error>>

\* Lines 114-115: st.stop() ends the run
Guard ==
    /\ pc = "guard"
    /\ pc' = IF ShouldStop(load_result) THEN "stopped" ELSE "col1"
    /\ UNCHANGED <<recVars, posterVars, disk, load_cache, load_result, session_state,
                   selectbox, search_query, trigger, selected_movie, calls, tmdb,
                   random_rendered, clicked, error>>

\* Lines 117-138: the sidebar metrics, the select boxes and the primary button
Col1 ==
    /\ pc = "col1"
    /\ IF load_result # "pair"
       THEN \* line 124: len(movies) of None
            /\ pc' = "crashed"
            /\ error' = "TypeError"
            /\ UNCHANGED <<selected_movie, session_state>>
       ELSE LET chosen == Selection(movies, selectbox, search_query)
            IN  /\ selected_movie' = chosen
                /\ session_state' =
                     IF Button("get_recommendations")
                     THEN [k \in DOMAIN session_state
                               \cup {"get_recommendations", "selected_movie"} |->
                             IF k = "get_recommendations" THEN TRUE
                             ELSE IF k = "selected_movie" THEN chosen
                             ELSE session_state[k]]
                     ELSE session_state
                /\ pc' = "col2"
                /\ UNCHANGED error
    /\ UNCHANGED <<recVars, posterVars, disk, load_cache, load_result, selectbox,
                   search_query, trigger, calls, tmdb, random_rendered, clicked>>

IdsOf(recommendations) == [k \in 1..Len(recommendations) |-> recommendations[k].movie_id]

\* Lines 140-166: the recommendations, their posters in the grid and in the list view
Col2 ==
    /\ pc = "col2"
    /\ IF WantsRecommendations
       THEN IF "selected_movie" \notin DOMAIN session_state
            THEN /\ pc' = "crashed"
                 /\ error' = "AttributeError"
                 /\ UNCHANGED <<rec, poster, poster_cache, calls>>
            ELSE LET call == recommend_movies(RecommendFor, movies, similarity)
                     ids == IdsOf(call.result)
                     last == FetchEach(poster @@ [cache |-> poster_cache], poster_cache,
                                       ids \o ids, tmdb)
                 IN  /\ rec' = call
                     /\ poster_cache' = last.cache
                     /\ poster' = [f \in DOMAIN last \ {"cache"} |-> last[f]]
                     /\ calls' = [calls EXCEPT !.recommend_movies = @ + 1,
                                               !.fetch_poster = @ + 2 * Len(ids)]
                     /\ pc' = "sidebar"
                     /\ UNCHANGED error
       ELSE /\ pc' = "sidebar"
            /\ UNCHANGED <<rec, poster, poster_cache, calls, error>>
    /\ UNCHANGED <<movies, similarity, disk, load_cache, load_result, session_state,
                   selectbox, search_query, trigger, selected_movie, tmdb,
                   random_rendered, clicked>>

\* Lines 168-178: the poster of the selected movie, in the sidebar
Sidebar ==
    /\ pc = "sidebar"
    /\ LET hits == SelectSeq(movies, LAMBDA row : row.title = selected_movie)
       IN  IF selected_movie # "" /\ hits # <<>>
           THEN LET call == fetch_poster(poster_cache, hits[1].movie_id, tmdb)
                IN  /\ poster_cache' = call.cache
                    /\ poster' = [f \in DOMAIN call \ {"cache"} |-> call[f]]
                    /\ calls' = [calls EXCEPT !.fetch_poster = @ + 1]
           ELSE UNCHANGED <<poster_cache, poster, calls>>
    /\ pc' = "random"
    /\ UNCHANGED <<recVars, disk, load_cache, load_result, session_state, selectbox,
                   search_query, trigger, selected_movie, tmdb, random_rendered,
                   clicked, error>>

\* The samples movies.sample(6) can draw: six distinct rows, in an order that
\* starts anywhere in the catalog
Samples(catalog) ==
    { [k \in 1..SampleSize |-> catalog[((start + k - 2) % Len(catalog)) + 1]] :
        start \in 1..Len(catalog) }

\* Lines 181-200: the random panel
RandomPanel ==
    /\ pc = "random"
    /\ IF ~Button("show_random")
       THEN /\ random_rendered' = FALSE
            /\ pc' = "idle"
            /\ UNCHANGED <<poster_cache, poster, calls, session_state, error,
                           trigger, load_result, rec>>
       ELSE IF Len(movies) < SampleSize
       THEN \* sample: cannot take a larger sample than population
            /\ random_rendered' = FALSE
            /\ pc' = "crashed"
            /\ error' = "ValueError"
            /\ UNCHANGED <<poster_cache, poster, calls, session_state, trigger,
                           load_result, rec>>
       ELSE \E random_movies \in Samples(movies) :
              LET pressed == {i \in 0..(SampleSize - 1) : RandomButton(i)}
                  upto == IF pressed = {} THEN SampleSize
                          ELSE (CHOOSE i \in pressed : \A j \in pressed : i <= j) + 1
                  ids == [k \in 1..upto |-> random_movies[k].movie_id]
                  last == FetchEach(poster @@ [cache |-> poster_cache], poster_cache,
                                    ids, tmdb)
              IN  /\ poster_cache' = last.cache
                  /\ poster' = [f \in DOMAIN last \ {"cache"} |-> last[f]]
                  /\ IF pressed = {}
                     THEN /\ random_rendered' = TRUE
                          /\ pc' = "idle"
                          /\ calls' = [calls EXCEPT !.fetch_poster = @ + upto]
                          /\ UNCHANGED <<session_state, trigger, load_result, rec>>
                     ELSE \* lines 198-200: store the title, st.experimental_rerun()
                          /\ session_state' =
                               [k \in DOMAIN session_state
                                    \cup {"get_recommendations", "selected_movie"} |->
                                  IF k = "get_recommendations" THEN TRUE
                                  ELSE IF k = "selected_movie"
                                       THEN random_movies[upto].title
                                  ELSE session_state[k]]
                          /\ random_rendered' = FALSE
                          /\ trigger' = [widget |-> "rerun", i |-> 0]
                          /\ pc' = "load"
                          /\ load_result' = "pending"
                          /\ calls' = NoCalls
                          /\ rec' = NoCall
                  /\ UNCHANGED error
    /\ UNCHANGED <<movies, similarity, disk, load_cache, selectbox, search_query,
                   selected_movie, tmdb, clicked>>

Next ==
    \/ LoadData \/ Guard \/ Col1 \/ Col2 \/ Sidebar \/ RandomPanel
    \/ ChangeSelectbox \/ TypeSearch \/ ClickGet \/ ClickShowRandom \/ ClickRandomGet

Spec == Init /\ [][Next]_vars

----------------------------------------------------------------------------
(* recommend_movies and fetch_poster on their own, over wider inputs *)

MainAtRest ==
    /\ disk = [movie_list |-> Artifact(movies), similarity |-> Artifact(similarity)]
    /\ load_cache = EmptyLoadCache /\ load_result = "pair"
    /\ session_state = NoSession
    /\ selectbox = 0 /\ search_query = ""
    /\ trigger = NoTrigger
    /\ pc = "call"
    /\ selected_movie = ""
    /\ calls = NoCalls
    /\ tmdb = EnvUp
    /\ random_rendered = FALSE
    /\ clicked = NoClick
    /\ error = "none"

InitRec ==
    /\ InitLabels \/ InitShapes \/ InitSquare \/ InitScenario
    /\ rec = NoCall
    /\ poster_cache = NoCache /\ poster = NoCall
    /\ MainAtRest

Queries == {movies[p].title : p \in DOMAIN movies} \cup {UnknownTitle}

Recommend ==
    /\ \E movie \in Queries : rec' = recommend_movies(movie, movies, similarity)
    /\ UNCHANGED <<movies, similarity, posterVars, mainVars>>

NextRec == Recommend

SpecRec == InitRec /\ [][NextRec]_vars

PosterIds == 1..MaxPosterIds

InitPoster ==
    /\ movies = <<>> /\ similarity = <<>> /\ rec = NoCall
    /\ poster_cache = NoCache /\ poster = NoCall
    /\ MainAtRest

\* A call for an id the cache holds: the body does not run
FetchCached ==
    /\ \E movie_id \in DOMAIN poster_cache :
         LET call == fetch_poster(poster_cache, movie_id, tmdb)
         IN  /\ poster' = [f \in DOMAIN call \ {"cache"} |-> call[f]]
             /\ poster_cache' = call.cache
    /\ UNCHANGED <<recVars, mainVars>>

\* A call for an id the cache does not hold: the body runs against the API
FetchNew ==
    /\ \E movie_id \in PosterIds \ DOMAIN poster_cache, env \in Envs :
         LET call == fetch_poster(poster_cache, movie_id, env)
         IN  /\ poster' = [f \in DOMAIN call \ {"cache"} |-> call[f]]
             /\ poster_cache' = call.cache
    /\ UNCHANGED <<recVars, mainVars>>

NextPoster == FetchCached \/ FetchNew

SpecPoster == InitPoster /\ [][NextPoster]_vars

----------------------------------------------------------------------------
(* Properties of recommend_movies, checked under SpecRec *)

TopK == TopTo - TopFrom

KnownTitle(movie) == \E p \in DOMAIN movies : movies[p].title = movie

DefaultLabels == \A p \in DOMAIN movies : movies[p].index = p - 1

UniqueTitles == \A p, q \in DOMAIN movies : movies[p].title = movies[q].title => p = q

NonIncreasing(seq) == \A k \in 1..(Len(seq) - 1) : seq[k] >= seq[k + 1]

ScoresOf(result) == [k \in 1..Len(result) |-> result[k].similarity_score]

RawScoresOf(pairs) == [k \in 1..Len(pairs) |-> pairs[k][2]]

\* C1: for a title of the catalog recommend_movies returns at most 5 entries,
\* and their similarity scores (as ranked and as emitted, rounded) never increase
\* from one entry to the next.
C1_AtMostFiveDescending ==
    (rec.called /\ KnownTitle(rec.movie)) =>
        /\ Len(rec.result) <= 5
        /\ NonIncreasing(ScoresOf(rec.result))
        /\ rec.result # <<>> => NonIncreasing(RawScoresOf(rec.body.movies_list))

\* A known title whose result has five entries that do not all score alike, on
\* a row whose own entry is not the maximum.
C1_Witness ==
    /\ rec.called /\ KnownTitle(rec.movie)
    /\ Len(rec.result) = 5
    /\ Len(rec.body.ranked) > 6
    /\ rec.result[1].similarity_score > rec.result[5].similarity_score
    /\ rec.body.ranked[1][1] # rec.body.movie_index

\* C2: no entry returned for a title of the catalog is the title's own row,
\* for every matrix (the rows whose own entry is tied or exceeded included);
\* stated here for catalogs of unique titles whose labels are the positions.
C2_NeverOwnRow ==
    (rec.called /\ KnownTitle(rec.movie) /\ DefaultLabels /\ UniqueTitles) =>
        \A k \in 1..Len(rec.result) :
            rec.result[k].movie_id # movies[FirstPosition(rec.movie, movies) + 1].movie_id

UnknownQuery == ~KnownTitle(rec.movie)
RowMissing == rec.body.matched /\ rec.body.movie_index + 1 \notin DOMAIN similarity
RankedOutsideCatalog ==
    \E k \in 1..Len(rec.body.movies_list) :
        rec.body.movies_list[k][1] + 1 \notin DOMAIN movies

\* C3: recommend_movies never raises; for a title outside the catalog, a matched
\* index beyond the matrix rows, or a ranked index beyond the catalog rows it
\* returns the empty list; what it returns is empty or one entry per ranked
\* entry of the slice, never part of them.
C3_NeverRaises ==
    rec.called =>
        /\ ~rec.raises
        /\ (UnknownQuery \/ RowMissing \/ RankedOutsideCatalog) => rec.result = <<>>
        /\ rec.result = <<>> \/ Len(rec.result) = Len(rec.body.movies_list)

\* A known title whose first ranked entries have catalog rows and a later one
\* has none: the loop raises after it has built part of the list.
C3_Witness ==
    /\ rec.called /\ KnownTitle(rec.movie)
    /\ rec.body.raised /\ rec.body.recommended_movies # <<>>
    /\ RankedOutsideCatalog
    /\ rec.result = <<>>

ScenarioResult ==
    << [title |-> "B", movie_id |-> 2, similarity_score |-> 900],
       [title |-> "C", movie_id |-> 3, similarity_score |-> 500],
       [title |-> "D", movie_id |-> 4, similarity_score |-> 200] >>

SquareMatrix ==
    /\ Len(similarity) = Len(movies)
    /\ \A i \in DOMAIN similarity : Len(similarity[i]) = Len(movies)

\* C6: for a known title whose matrix row has as many entries as the catalog
\* has movies (n), the result has exactly min(5, n - 1) entries; with fewer
\* than 5 other movies these are all the rows but the dropped one; the row
\* [1.0, 0.9, 0.5, 0.2] over A, B, C, D gives B, C, D for A.  With labels
\* equal to positions and a square matrix every known title has such a row.
C6_ExactCount ==
    /\ (rec.called /\ KnownTitle(rec.movie) /\ DefaultLabels /\ SquareMatrix) =>
          /\ rec.body.matched /\ rec.body.has_row
          /\ Len(rec.body.distances) = Len(movies)
    /\ (rec.called /\ rec.body.matched /\ rec.body.has_row
        /\ Len(rec.body.distances) = Len(movies)) =>
        LET n == Len(movies)
        IN  /\ Len(rec.result) = Min(TopK, n - 1)
            /\ n - 1 <= TopK =>
                  {rec.body.movies_list[k][1] : k \in 1..Len(rec.body.movies_list)}
                    = (0..(n - 1)) \ {rec.body.ranked[1][1]}
            /\ (movies = ScenarioCatalog /\ rec.body.distances = ScenarioRow
                   /\ rec.movie = "A") => rec.result = ScenarioResult

\* The scenario of the specification: A over A, B, C, D gives B, C, D.
C6_Witness ==
    /\ rec.called /\ rec.movie = "A"
    /\ movies = ScenarioCatalog
    /\ rec.body.has_row /\ rec.body.distances = ScenarioRow
    /\ rec.result = ScenarioResult

\* A catalog of more than six movies: five of the six others are returned.
C6_WitnessFive ==
    /\ rec.called /\ rec.body.has_row
    /\ Len(movies) > TopTo /\ Len(rec.body.distances) = Len(movies)
    /\ Len(rec.result) = TopK

\* C8: in the ranking, of two rows with equal score the lower row index comes
\* first: among adjacent ranked entries (so among the returned ones), and the
\* dropped first entry is the lowest row index that has the highest score.
C8_StableTies ==
    (rec.called /\ rec.body.has_row) =>
        LET ranked == rec.body.ranked
            d == rec.body.distances
        IN  /\ Len(ranked) = Len(d)
            /\ \A k \in 1..Len(ranked) : ranked[k][2] = d[ranked[k][1] + 1]
            /\ \A k \in 1..(Len(ranked) - 1) :
                  \/ ranked[k][2] > ranked[k + 1][2]
                  \/ ranked[k][2] = ranked[k + 1][2] /\ ranked[k][1] < ranked[k + 1][1]
            /\ d # <<>> =>
                  /\ \A j \in 1..Len(d) : d[j] <= ranked[1][2]
                  /\ \A j \in 1..Len(d) : d[j] = ranked[1][2] => ranked[1][1] <= j - 1
            /\ rec.body.movies_list = SubSeq(ranked, 2, Min(TopTo, Len(ranked)))
            /\ rec.result # <<>> =>
                  \A k \in 1..Len(rec.result) :
                      rec.result[k].movie_id = movies[ranked[k + 1][1] + 1].movie_id

\* The highest score is shared by the dropped entry and the first returned
\* one, and two later returned entries tie as well.
C8_Witness ==
    /\ rec.called /\ rec.body.has_row /\ Len(rec.result) >= 3
    /\ rec.body.ranked[1][2] = rec.body.ranked[2][2]
    /\ rec.body.ranked[3][2] = rec.body.ranked[4][2]
    /\ rec.body.ranked[2][2] > rec.body.ranked[3][2]

\* C9: the matrix row read for a title is the row at the catalog position of
\* the first movie with that title, for every catalog (repeated titles and
\* labels that differ from positions included).
C9_RowAtFirstPosition ==
    (rec.called /\ rec.body.matched /\ rec.body.has_row) =>
        /\ rec.body.movie_index = FirstPosition(rec.movie, movies)
        /\ rec.body.distances = similarity[FirstPosition(rec.movie, movies) + 1]

----------------------------------------------------------------------------
(* Properties of fetch_poster, checked under SpecPoster *)

PosterUrls == {Placeholder} \cup {ImageBase \o path : path \in PosterPaths}

\* The body met no key, a failed request, a body that is no JSON object, or
\* no non-empty poster_path
Unavailable(env) ==
    \/ ~env.api_key
    \/ ~env.request_ok
    \/ env.json # "object"
    \/ env.poster_path.tag # "str"
    \/ env.poster_path.s = ""

\* C5: fetch_poster always returns a URL and never raises; when its body runs,
\* the result is the placeholder if the key is missing, the request fails, the
\* response is no JSON object, or poster_path is absent, null or empty, and
\* otherwise the image base followed by poster_path; a cached id returns the
\* URL cached for it.
C5_PosterAlwaysUrl ==
    poster.called =>
        /\ ~poster.raises
        /\ poster.url \in PosterUrls
        /\ poster.movie_id \in DOMAIN poster_cache
        /\ poster_cache[poster.movie_id] = poster.url
        /\ poster.executed =>
             poster.url = IF Unavailable(poster.env) THEN Placeholder
                          ELSE ImageBase \o poster.env.poster_path.s

\* A call whose request failed returned the placeholder, while another id
\* had been resolved to an image URL.
C5_Witness ==
    /\ poster.called /\ poster.executed
    /\ poster.env.api_key /\ ~poster.env.request_ok
    /\ poster.url = Placeholder
    /\ \E id \in DOMAIN poster_cache : poster_cache[id] = ImageBase \o "/a.jpg"

----------------------------------------------------------------------------
(* Properties of main(), checked under Spec *)

\* C4: load_data returns the pair only if the matrix has as many rows as the
\* catalog; otherwise it fails.
C4_LoadValidates ==
    load_result = "pair" => Len(similarity) = Len(movies)

\* C7: in a run whose load_data returned None, load_data was called once, the
\* run is at the guard or stopped, and no call of recommend_movies or
\* fetch_poster has been made.
C7_LoadFailureFatal ==
    load_result = "none" =>
        /\ pc \in {"guard", "stopped"}
        /\ calls.load_data = 1
        /\ calls.recommend_movies = 0 /\ calls.fetch_poster = 0
        /\ ~rec.called /\ ~poster.called
        /\ error = "none"

\* A run that load failure has stopped.
C7_Witness ==
    /\ load_result = "none" /\ pc = "stopped"
    /\ disk.movie_list.state = "ok" /\ disk.similarity.state = "corrupt"

AfterCol1 == pc \in {"col2", "sidebar", "random", "idle", "crashed"}

C10_State ==
    /\ "get_recommendations" \in DOMAIN session_state =>
         /\ session_state["get_recommendations"]
         /\ "selected_movie" \in DOMAIN session_state
         /\ clicked.has
    /\ (WantsRecommendations /\ AfterCol1) =>
         session_state["selected_movie"] = clicked.title
    /\ rec.called =>
         /\ clicked.has
         /\ rec.movie = clicked.title
         /\ rec.movie = session_state["selected_movie"]
    /\ error # "AttributeError"

C10_Step == WantsRecommendations => WantsRecommendations'

\* C10: the flag get_recommendations is set only together with selected_movie,
\* by a click; recommend_movies is called only after a click and with the
\* title that click stored, which is the selection the page showed when the
\* button was clicked; the flag, once set, stays set.
C10_ClickGovernsRecommendations == []C10_State /\ [][C10_Step]_vars

\* Recommendations on the page for the clicked title while the selector has
\* moved on to another one.
C10_Witness ==
    /\ pc = "idle"
    /\ rec.called /\ rec.result # <<>>
    /\ rec.movie = clicked.title
    /\ selected_movie # rec.movie
    /\ trigger.widget = "selectbox"

\* The buttons of the random panel are evaluated only in a run that the
\* "Show Random Movies" button started, where none of them is pressed: lines
\* 198-200 never run.
RandomHandlerNeverRuns == trigger.widget # "rerun"

====
